---- MODULE Spec2Model ----
(***************************************************************************)
(* SFFS (iqyx/sffs): byte-level model of the flash emulator, the metadata  *)
(* engine, the page index and the write path of src/sffs.c.                *)
(*                                                                         *)
(* The medium is the emulator's byte array.  Structures are packed and     *)
(* little-endian: header = magic[4] state mpc mic reserved, item =         *)
(* file_id[2] block[2] state size[2] reserved.  The geometry is the        *)
(* emulator's, scaled down (page 8 bytes, sector 40 bytes) so that the     *)
(* relations the code relies on are kept: the 8-byte header and items are  *)
(* page-aligned and never cross a page, the page size divides the sector   *)
(* size, and the item table plus the data pages fit into a sector.         *)
(***************************************************************************)
EXTENDS Integers, Sequences, FiniteSets, TLC

\* ------------------------------------------------------------------------
\* Bounds of the model
\* ------------------------------------------------------------------------
\* number of sectors of the emulated device (flash_init's size / sector size)
NumSectors == 2
\* number of sffs_write calls in one run
MaxWrites == 3
\* largest sector size, besides the reference 4096, and largest number of
\* sectors of the devices whose geometry sffs_mount derives
GeomMaxSectorSize == 64
GeomMaxSectors == 8
\* number of data pages, in scan order, whose item a medium handed to the
\* lookups sets freely
MediaPages == 4

\* lengths passed to sffs_write: empty, inside a page, a whole page, and
\* one that spans two logical blocks
Lens == {0, 1, 8, 9}
\* file ids passed to sffs_open_id: 0 (rejected by sffs_write), a file, and
\* an id above 16 bits (the item stores a uint16_t)
FileIds == {0, 1, 65537}
\* byte sources of the caller (tf->data of the test): two patterns
Sources == {1, 2}
\* values an uninitialised byte of a stack structure can hold
Garbage == {0, 255}

\* ------------------------------------------------------------------------
\* Program constants
\* ------------------------------------------------------------------------
FLASH_EMU_PAGE_SIZE == 8
FLASH_EMU_SECTOR_SIZE == 40
HeaderSize == 8
ItemSize == 8
U16 == 65536

\* SFFS_METADATA_MAGIC 0x87985214, little-endian
MagicBytes == <<20, 82, 152, 135>>

SFFS_SECTOR_STATE_ERASED == 222
SFFS_SECTOR_STATE_USED == 214
SFFS_SECTOR_STATE_FULL == 86
SFFS_SECTOR_STATE_DIRTY == 70
\* used by sffs_update_sector_metadata, not defined in src/sffs.h
SFFS_SECTOR_STATE_OLD == 68

SFFS_PAGE_STATE_ERASED == 183
SFFS_PAGE_STATE_USED == 181
SFFS_PAGE_STATE_MOVING == 53
SFFS_PAGE_STATE_RESERVED == 52
SFFS_PAGE_STATE_OLD == 36

\* ------------------------------------------------------------------------
\* Bytes
\* ------------------------------------------------------------------------
RECURSIVE BitAnd(_, _)
\* a & b on naturals
BitAnd(a, b) ==
    IF a = 0 \/ b = 0 THEN 0
    ELSE 2 * BitAnd(a \div 2, b \div 2)
         + (IF a % 2 = 1 /\ b % 2 = 1 THEN 1 ELSE 0)

MinOf(S) == CHOOSE x \in S : \A y \in S : x <= y
MAX(a, b) == IF a > b THEN a ELSE b
MIN(a, b) == IF a < b THEN a ELSE b

\* uint32_t values.  TLC's integers are 32-bit signed, so the one
\* value of the code that can exceed them, f->pos + len - 1 after it wrapped
\* below zero, is held as -1, which stands for 0xFFFFFFFF; every other
\* uint32_t of the model stays far below 2^31.
U32Sub1(x) == x - 1
\* x / d in uint32_t arithmetic (0xFFFFFFFF = 65535 * 65536 + 65535)
U32Div(x, d) ==
    IF x < 0
    THEN (65535 \div d) * U16 + ((65535 % d) * U16 + 65535) \div d
    ELSE x \div d
\* no crop to the page boundary
U32MinLeft(x, y) == x
\* MIN(x, y) in uint32_t arithmetic, y not wrapped
U32Min(x, y) == IF x < 0 THEN y ELSE MIN(x, y)

\* little-endian bytes of a uint16_t (the value is truncated to 16 bits)
Le16(v) == << (v % U16) % 256, (v % U16) \div 256 >>

\* ------------------------------------------------------------------------
\* Flash emulator
\* ------------------------------------------------------------------------
Capacity == NumSectors * FLASH_EMU_SECTOR_SIZE
\* the medium is the sequence flash->data; byte address a is element a + 1
\* flash_chip_erase: every byte 0xff
ErasedChip == [a \in 1..Capacity |-> 255]

\* the four argument assertions of flash_page_write / flash_page_read
FlashArgsOK(addr, len) ==
    /\ len > 0
    /\ len <= FLASH_EMU_PAGE_SIZE
    /\ addr + len <= Capacity
    /\ addr + len <= (addr \div FLASH_EMU_PAGE_SIZE) * FLASH_EMU_PAGE_SIZE
                     + FLASH_EMU_PAGE_SIZE

\* a medium that stores the byte written instead of and-ing it in
FlashStoreByte(old, new) == new
\* the byte the emulator stores: data[addr + i] &= data[i]
FlashAndByte(old, new) == BitAnd(old, new)

\* flash_page_write.  nd is the build without assertions (NDEBUG).  The
\* result is the new medium and whether an assertion's condition was false;
\* with assertions compiled in, the loop stops at the first bad byte, which
\* has already been and-ed into the medium.
flash_page_write(fl, addr, data, nd) ==
    LET len == Len(data)
        argsok == FlashArgsOK(addr, len)
        bad == {k \in 1..len : FlashAndByte(fl[addr + k], data[k]) # data[k]}
        stop == IF nd \/ bad = {} THEN len ELSE MinOf(bad)
    IN  IF ~argsok
        THEN [data |-> fl, fault |-> "flash_args"]
        ELSE [data |-> SubSeq(fl, 1, addr)
                       \o [k \in 1..stop |-> FlashAndByte(fl[addr + k], data[k])]
                       \o SubSeq(fl, addr + stop + 1, Capacity),
              fault |-> IF bad = {} THEN "none" ELSE "bad_write"]

\* flash_page_read: memcpy of len bytes
flash_page_read(fl, addr, len) == SubSeq(fl, addr + 1, addr + len)

\* ------------------------------------------------------------------------
\* Geometry derived by sffs_mount / sffs_format
\* ------------------------------------------------------------------------
page_size == FLASH_EMU_PAGE_SIZE
sector_size == FLASH_EMU_SECTOR_SIZE
sector_count == Capacity \div FLASH_EMU_SECTOR_SIZE
data_pages_per_sector ==
    (FLASH_EMU_SECTOR_SIZE - HeaderSize) \div (ItemSize + FLASH_EMU_PAGE_SIZE)
first_data_page ==
    FLASH_EMU_SECTOR_SIZE \div FLASH_EMU_PAGE_SIZE - data_pages_per_sector

Sectors == 0 .. (sector_count - 1)
PageIdx == 0 .. (data_pages_per_sector - 1)
\* struct sffs_page values
Pages == [sector : Sectors, page : PageIdx]
NoPage == [sector |-> -1, page |-> -1]

HeaderAddr(sector) == sector * sector_size
ItemAddr(p) == p.sector * sector_size + HeaderSize + p.page * ItemSize

\* sffs_page_addr
sffs_page_addr(p) ==
    p.sector * sector_size + (first_data_page + p.page) * page_size

\* ------------------------------------------------------------------------
\* Metadata engine
\* ------------------------------------------------------------------------
\* struct sffs_metadata_item as its eight packed bytes
ItemBytes(item) ==
    Le16(item.file_id) \o Le16(item.block) \o <<item.state>>
    \o Le16(item.size) \o <<item.reserved>>

\* sffs_get_page_metadata: the item of a data page, decoded
sffs_get_page_metadata(fl, p) ==
    LET b == flash_page_read(fl, ItemAddr(p), ItemSize)
    IN  [file_id  |-> b[1] + 256 * b[2],
         block    |-> b[3] + 256 * b[4],
         state    |-> b[5],
         size     |-> b[6] + 256 * b[7],
         reserved |-> b[8]]

\* header.state of a sector, as read from the medium
HeaderState(fl, sector) == fl[HeaderAddr(sector) + 4 + 1]

\* sffs_metadata_header_check
sffs_metadata_header_check(fl, sector) ==
    SubSeq(flash_page_read(fl, HeaderAddr(sector), HeaderSize), 1, 4) = MagicBytes

\* number of data pages of a sector whose item has the given state
CountState(fl, sector, st) ==
    Cardinality({i \in PageIdx :
        sffs_get_page_metadata(fl, [sector |-> sector, page |-> i]).state = st})

\* a derivation that calls a sector DIRTY as soon as one page is taken
DerivedSectorStateEager(fl, sector) ==
    IF CountState(fl, sector, SFFS_PAGE_STATE_ERASED) = data_pages_per_sector
    THEN SFFS_SECTOR_STATE_ERASED
    ELSE IF CountState(fl, sector, SFFS_PAGE_STATE_OLD) = data_pages_per_sector
    THEN SFFS_SECTOR_STATE_OLD
    ELSE SFFS_SECTOR_STATE_DIRTY
\* a derivation that calls a sector with an OLD page USED
DerivedSectorStateOldAsUsed(fl, sector) ==
    IF CountState(fl, sector, SFFS_PAGE_STATE_OLD) > 0
    THEN SFFS_SECTOR_STATE_USED
    ELSE IF CountState(fl, sector, SFFS_PAGE_STATE_ERASED) = data_pages_per_sector
    THEN SFFS_SECTOR_STATE_ERASED
    ELSE IF CountState(fl, sector, SFFS_PAGE_STATE_ERASED) > 0
    THEN SFFS_SECTOR_STATE_USED
    ELSE SFFS_SECTOR_STATE_DIRTY
\* the chain of if statements of sffs_update_sector_metadata: every matching
\* statement assigns header.state, so the last one that matches decides;
\* -1 when none matches (update_ok == 0)
DerivedSectorState(fl, sector) ==
    LET p_erased   == CountState(fl, sector, SFFS_PAGE_STATE_ERASED)
        p_reserved == CountState(fl, sector, SFFS_PAGE_STATE_RESERVED)
        p_used     == CountState(fl, sector, SFFS_PAGE_STATE_USED)
        p_moving   == CountState(fl, sector, SFFS_PAGE_STATE_MOVING)
        p_old      == CountState(fl, sector, SFFS_PAGE_STATE_OLD)
        s1 == IF p_erased = data_pages_per_sector /\ p_reserved = 0
                 /\ p_used = 0 /\ p_moving = 0 /\ p_old = 0
              THEN SFFS_SECTOR_STATE_ERASED ELSE -1
        s2 == IF p_erased > 0
                 /\ (p_reserved > 0 \/ p_used > 0 \/ p_moving > 0 \/ p_old > 0)
              THEN SFFS_SECTOR_STATE_USED ELSE s1
        s3 == IF p_erased = 0 /\ p_old = 0
              THEN SFFS_SECTOR_STATE_FULL ELSE s2
        s4 == IF p_erased = 0
                 /\ (p_reserved + p_used + p_moving + p_old) = data_pages_per_sector
              THEN SFFS_SECTOR_STATE_DIRTY ELSE s3
        s5 == IF p_old = data_pages_per_sector
              THEN SFFS_SECTOR_STATE_OLD ELSE s4
    IN  s5

\* sffs_update_sector_metadata: read the header, check it, derive the state,
\* write the whole header back
sffs_update_sector_metadata(fl, sector, nd) ==
    LET header == flash_page_read(fl, HeaderAddr(sector), HeaderSize)
        st == DerivedSectorState(fl, sector)
    IN  IF ~sffs_metadata_header_check(fl, sector)
        THEN [data |-> fl, fault |-> "none"]
        ELSE IF st = -1
        THEN [data |-> fl, fault |-> "update_sector"]
        ELSE flash_page_write(fl, HeaderAddr(sector),
                              [header EXCEPT ![5] = st], nd)

\* the item write of sffs_set_page_metadata (sffs_cached_write of the item)
ItemWrite(fl, p, item, nd) ==
    flash_page_write(fl, ItemAddr(p), ItemBytes(item), nd)

\* the item write of sffs_set_page_state: read the item, replace its state
StateWrite(fl, p, page_state, nd) ==
    ItemWrite(fl, p,
              [sffs_get_page_metadata(fl, p) EXCEPT !.state = page_state], nd)

\* ------------------------------------------------------------------------
\* Page index
\* ------------------------------------------------------------------------
\* scan order: sectors ascending, pages ascending within a sector
PageNo(p) == p.sector * data_pages_per_sector + p.page
PageAt(n) == [sector |-> n \div data_pages_per_sector,
              page   |-> n % data_pages_per_sector]
NumPages == sector_count * data_pages_per_sector

FirstPage(S) == IF S = {} THEN NoPage ELSE PageAt(MinOf({PageNo(p) : p \in S}))

\* a lookup that matches file and block and not the state
sffs_find_page_any_state(fl, file_id, block) ==
    FirstPage({p \in Pages :
        LET item == sffs_get_page_metadata(fl, p)
        IN  item.file_id = file_id /\ item.block = block})
\* a lookup that matches the block and not the file
sffs_find_page_any_file(fl, file_id, block) ==
    FirstPage({p \in Pages :
        LET item == sffs_get_page_metadata(fl, p)
        IN  /\ item.block = block
            /\ (item.state = SFFS_PAGE_STATE_USED
                \/ item.state = SFFS_PAGE_STATE_MOVING)})
\* sffs_find_page
sffs_find_page(fl, file_id, block) ==
    FirstPage({p \in Pages :
        LET item == sffs_get_page_metadata(fl, p)
        IN  /\ item.file_id = file_id
            /\ item.block = block
            /\ (item.state = SFFS_PAGE_STATE_USED
                \/ item.state = SFFS_PAGE_STATE_MOVING)})

\* a search that skips the DIRTY and FULL sectors and does not look at the
\* item's state
sffs_find_erased_page_any_state(fl) ==
    FirstPage({p \in Pages :
        /\ HeaderState(fl, p.sector) # SFFS_SECTOR_STATE_DIRTY
        /\ HeaderState(fl, p.sector) # SFFS_SECTOR_STATE_FULL})
\* a search that looks into FULL and DIRTY sectors too
sffs_find_erased_page_any_sector(fl) ==
    FirstPage({p \in Pages :
        sffs_get_page_metadata(fl, p).state = SFFS_PAGE_STATE_ERASED})
\* sffs_find_erased_page
sffs_find_erased_page(fl) ==
    FirstPage({p \in Pages :
        /\ HeaderState(fl, p.sector) # SFFS_SECTOR_STATE_DIRTY
        /\ HeaderState(fl, p.sector) # SFFS_SECTOR_STATE_FULL
        /\ sffs_get_page_metadata(fl, p).state = SFFS_PAGE_STATE_ERASED})

\* the data area of a page
PageData(fl, p) == flash_page_read(fl, sffs_page_addr(p), page_size)

\* ------------------------------------------------------------------------
\* Format
\* ------------------------------------------------------------------------
RECURSIVE ApplyWrites(_, _, _)
\* a sequence of flash_page_write calls <<addr, data>> issued one after the
\* other; with assertions compiled in, the first failing one ends the run
ApplyWrites(fl, ws, nd) ==
    IF ws = <<>> THEN [data |-> fl, fault |-> "none"]
    ELSE LET r == flash_page_write(fl, ws[1][1], ws[1][2], nd)
         IN  IF r.fault # "none" /\ ~nd THEN r
             ELSE LET rest == ApplyWrites(r.data, Tail(ws), nd)
                  IN  [data |-> rest.data,
                       fault |-> IF r.fault # "none" THEN r.fault ELSE rest.fault]

\* a format that writes the sector header and leaves the item table as the
\* erase left it
FormatHeaderOnly(sector, g) ==
    << <<HeaderAddr(sector), MagicBytes \o <<SFFS_SECTOR_STATE_ERASED, g, g, g>> >> >>
\* the writes of sffs_format for one sector: the header (magic and state
\* set, the other three bytes left uninitialised) and one item per data page
\* (file_id, block, state and size set, reserved left uninitialised)
FormatSectorWrites(sector, g) ==
    << <<HeaderAddr(sector), MagicBytes \o <<SFFS_SECTOR_STATE_ERASED, g, g, g>> >> >>
    \o [i \in 1..data_pages_per_sector |->
          << ItemAddr([sector |-> sector, page |-> i - 1]),
             ItemBytes([file_id |-> 65535, block |-> 65535,
                        state |-> SFFS_PAGE_STATE_ERASED,
                        size |-> 65535, reserved |-> g]) >>]

RECURSIVE FormatWrites(_, _)
FormatWrites(sector, g) ==
    IF sector >= Capacity \div FLASH_EMU_SECTOR_SIZE THEN <<>>
    ELSE FormatSectorWrites(sector, g) \o FormatWrites(sector + 1, g)

\* sffs_format
sffs_format(fl, g, nd) == ApplyWrites(fl, FormatWrites(0, g), nd)

\* ------------------------------------------------------------------------
\* Media the file system is mounted on
\* ------------------------------------------------------------------------
\* sffs_mount validates nothing (its checks are TODO), so the medium is an
\* input of the program.  Besides the erased chip, the model starts from
\* formatted media that already carry committed pages: the first k data
\* pages in scan order hold blocks of files 1 and 2 in state USED.  Such a
\* medium is built with the emulator's own and-writes on a formatted chip
\* (ERASED 0xB7 -> USED 0xB5 clears one bit), each item write followed by
\* sffs_update_sector_metadata.
ImageFile(n) == 1 + (n % 2)
ImageBlock(n) == n \div 2
ImageByte(n, k) == 128 + 16 * ImageFile(n) + 4 * ImageBlock(n) + (k % 4)

RECURSIVE ImagePages(_, _, _)
ImagePages(fl, n, k) ==
    IF n >= k THEN fl
    ELSE LET p == PageAt(n)
             g == sffs_get_page_metadata(fl, p).reserved
             d == flash_page_write(fl, sffs_page_addr(p),
                      [j \in 1..page_size |-> ImageByte(n, j - 1)], TRUE).data
             c == ItemWrite(d, p, [file_id |-> ImageFile(n),
                                   block |-> ImageBlock(n),
                                   state |-> SFFS_PAGE_STATE_USED,
                                   size |-> page_size,
                                   reserved |-> g], TRUE).data
             u == sffs_update_sector_metadata(c, p.sector, TRUE)
         \* a page is added only if its sector header took the new state
         IN  IF u.fault # "none" THEN fl
             ELSE ImagePages(u.data, n + 1, k)

Image(k, g) == ImagePages(sffs_format(ErasedChip, g, TRUE).data, 0, k)

\* how many pages the starting images carry: one, two, all but one, all
ImageFill == {1, 2, NumPages - 1, NumPages}

\* ------------------------------------------------------------------------
\* Caller data
\* ------------------------------------------------------------------------
\* byte k of the caller's byte source (never 0x00 and never 0xff)
SrcByte(src, k) == 16 * src + (k % 8) + 1
\* the buffer the caller passes to sffs_write at position pos
SrcBuf(src, pos, len) == [j \in 1..len |-> SrcByte(src, pos + j - 1)]

SFFS_MOUNT_OK == 0
SFFS_MOUNT_FAILED == -1
SFFS_WRITE_OK == 0
SFFS_WRITE_FAILED == -1
\* ret.val while the call has not returned: neither return value
NotReturned == SFFS_WRITE_OK + 1

\* ------------------------------------------------------------------------
\* State
\* ------------------------------------------------------------------------
VARIABLES
    flash,      \* flash->data
    ndebug,     \* TRUE: the build has assertions compiled out
    garbage,    \* the value uninitialised structure bytes hold in this run
    origin,     \* "blank" (erased chip), "format" (sffs_format ran), "image"
    mounted,    \* sffs_mount has run
    f,          \* struct sffs_file of the caller
    pc,         \* "idle", a step of sffs_write, or "aborted"
    w,          \* locals of the sffs_write call in progress
    ret,        \* the last sffs_write or sffs_read call and what it returned
    pre,        \* medium and position when the last sffs_write was called
    log,        \* flash_page_write calls of the current block iteration
    fault,      \* first assertion whose condition was false, or "none"
    nwrites,    \* sffs_write calls made
    expect      \* what a single writer has written to a fresh medium

vars == <<flash, ndebug, garbage, origin, mounted, f, pc, w, ret, pre, log,
          fault, nwrites, expect>>

NoFile == [open |-> FALSE, file_id |-> 0, pos |-> 0, src |-> 0]
NoCall == [len |-> 0, buf |-> <<>>, i |-> 0, b_end |-> 0, page |-> NoPage,
           loaded_old |-> FALSE, page_data |-> <<>>, new_page |-> NoPage,
           source_offset |-> 0, dest_offset |-> 0, dest_len |-> 0]
NoPre == [flash |-> <<>>, pos |-> 0, file_id |-> 0, len |-> 0]
NoRet == [op |-> "none", val |-> 0, len |-> 0, buf |-> <<>>]
NoExpect == [kind |-> "none", file_id |-> 0, src |-> 0, len |-> 0]
Mixed == [kind |-> "mixed", file_id |-> 0, src |-> 0, len |-> 0]

WriteSteps == {"stage", "moving", "moving_hdr", "reserve", "reserve_hdr",
               "data", "old", "old_hdr", "commit", "commit_hdr"}

Init ==
    /\ ndebug \in BOOLEAN
    /\ garbage \in Garbage
    /\ \/ flash = ErasedChip /\ origin = "blank"
       \/ \E k \in ImageFill : flash = Image(k, garbage) /\ origin = "image"
    /\ mounted = FALSE
    /\ f = NoFile
    /\ pc = "idle"
    /\ w = NoCall
    /\ ret = NoRet
    /\ pre = NoPre
    /\ log = <<>>
    /\ fault = "none"
    /\ nwrites = 0
    /\ expect = NoExpect

\* the effect of one adaptor call or assertion on the run: a false
\* assertion ends a build with assertions, and is only recorded otherwise
Outcome(r, next) ==
    /\ flash' = r.data
    /\ fault' = IF fault = "none" THEN r.fault ELSE fault
    /\ pc' = IF r.fault # "none" /\ ~ndebug THEN "aborted" ELSE next

\* ------------------------------------------------------------------------
\* Format, mount, open, close, read
\* ------------------------------------------------------------------------
\* sffs_format on the erased, unmounted chip
Format ==
    /\ pc = "idle" /\ origin = "blank" /\ ~mounted
    /\ Outcome(sffs_format(flash, garbage, ndebug), "idle")
    /\ origin' = "format"
    /\ ret' = NoRet
    /\ pre' = NoPre
    /\ UNCHANGED <<ndebug, garbage, mounted, f, w, log, nwrites, expect>>

\* sffs_mount: derives the geometry, opens file 0, calls the empty sffs_read
\* and returns SFFS_MOUNT_OK whatever the medium holds
Mount ==
    /\ pc = "idle" /\ ~mounted
    /\ mounted' = TRUE
    /\ ret' = [op |-> "mount", val |-> SFFS_MOUNT_OK, len |-> 0, buf |-> <<>>]
    /\ pre' = NoPre
    /\ UNCHANGED <<flash, ndebug, garbage, origin, f, pc, w, log, fault,
                   nwrites, expect>>

\* sffs_open_id: pos = 0, fs and file_id bound; src is the caller's data
Open(id, src) ==
    /\ pc = "idle" /\ mounted
    /\ f' = [open |-> TRUE, file_id |-> id, pos |-> 0, src |-> src]
    /\ ret' = NoRet
    /\ pre' = NoPre
    /\ UNCHANGED <<flash, ndebug, garbage, origin, mounted, pc, w, log,
                   fault, nwrites, expect>>

\* sffs_close: the body is empty, the session stays as it is
Close ==
    /\ pc = "idle" /\ f.open
    /\ ret' = NoRet
    /\ pre' = NoPre
    /\ UNCHANGED <<flash, ndebug, garbage, origin, mounted, f, pc, w, log,
                   fault, nwrites, expect>>

\* lengths passed to sffs_read
ReadLens == {1, 8}
\* sffs_read: the body is empty; the caller's buffer (uninitialised in the
\* test) is not written, f->pos does not move, and the value returned is
\* whatever the return register holds
Read(n, v) ==
    /\ pc = "idle" /\ f.open
    /\ pre' = NoPre
    /\ ret' = [op |-> "read", val |-> v, len |-> n, buf |-> [k \in 1..n |-> garbage]]
    /\ UNCHANGED <<flash, ndebug, garbage, origin, mounted, f, pc, w, log,
                   fault, nwrites, expect>>

\* sffs_file_size is called by src/emulator/sffs_test1.c and is not part of
\* src/sffs.c; section 4.5: scan the USED and MOVING items of the file,
\* size = max_block * P + the size field of the page of that block
sffs_file_size(fl, file_id) ==
    LET mine == {p \in Pages :
                    /\ sffs_get_page_metadata(fl, p).file_id = file_id
                    /\ (sffs_get_page_metadata(fl, p).state = SFFS_PAGE_STATE_USED
                        \/ sffs_get_page_metadata(fl, p).state = SFFS_PAGE_STATE_MOVING)}
        blocks == {sffs_get_page_metadata(fl, p).block : p \in mine}
        max_block == CHOOSE b \in blocks : \A c \in blocks : c <= b
    IN  IF mine = {} THEN 0
        ELSE max_block * page_size
             + sffs_get_page_metadata(fl, sffs_find_page(fl, file_id, max_block)).size

\* size_check_test_file: sffs_file_size of the file the single writer wrote
FileSize ==
    /\ pc = "idle" /\ mounted /\ f.open /\ expect.kind = "file"
    /\ ret.op # "size"
    /\ pre' = NoPre
    /\ ret' = [op |-> "size", val |-> sffs_file_size(flash, expect.file_id),
               len |-> 0, buf |-> <<>>]
    /\ UNCHANGED <<flash, ndebug, garbage, origin, mounted, f, pc, w, log,
                   fault, nwrites, expect>>

\* ------------------------------------------------------------------------
\* sffs_write
\* ------------------------------------------------------------------------
\* entries of log: one per flash_page_write call
LogItem(p, st) == [op |-> "item", sector |-> p.sector, page |-> p.page, state |-> st]
LogData(p) == [op |-> "data", sector |-> p.sector, page |-> p.page, state |-> 0]
LogHeader(sector) == [op |-> "header", sector |-> sector, page |-> -1, state |-> 0]

\* what a single writer has put on a fresh medium once this call returns OK
ExpectAfter(len) ==
    IF origin # "format" \/ len = 0 THEN expect
    ELSE IF f.pos = 0 /\ expect.kind = "none"
    THEN [kind |-> "file", file_id |-> f.file_id, src |-> f.src, len |-> len]
    ELSE IF expect.kind = "file" /\ expect.file_id = f.file_id
            /\ expect.src = f.src /\ expect.len = f.pos
    THEN [expect EXCEPT !.len = f.pos + len]
    ELSE Mixed

\* entry of sffs_write: the session check and the block range
WriteCall(len) ==
    /\ pc = "idle" /\ f.open /\ nwrites < MaxWrites
    /\ nwrites' = nwrites + 1
    /\ pre' = [flash |-> flash, pos |-> f.pos, file_id |-> f.file_id, len |-> len]
    /\ log' = <<>>
    /\ IF f.file_id = 0
       THEN /\ ret' = [op |-> "write", val |-> SFFS_WRITE_FAILED, len |-> len, buf |-> <<>>]
            /\ UNCHANGED <<pc, w>>
       ELSE /\ pc' = "stage"
            /\ w' = [NoCall EXCEPT
                       !.len = len,
                       !.buf = SrcBuf(f.src, f.pos, len),
                       !.i = f.pos \div page_size,
                       !.b_end = U32Div(U32Sub1(f.pos + len), page_size)]
            /\ ret' = [op |-> "write", val |-> NotReturned, len |-> len, buf |-> <<>>]
    /\ UNCHANGED <<flash, ndebug, garbage, origin, mounted, f, fault, expect>>

\* a return that leaves f->pos where it was
WriteReturnKeepPos ==
    /\ pc = "stage" /\ w.i > w.b_end
    /\ ret' = [op |-> "write", val |-> SFFS_WRITE_OK, len |-> w.len, buf |-> <<>>]
    /\ expect' = ExpectAfter(w.len)
    /\ pc' = "idle"
    /\ w' = NoCall
    /\ log' = <<>>
    /\ UNCHANGED <<flash, ndebug, garbage, origin, mounted, f, pre, fault, nwrites>>
\* the loop condition fails: f->pos += len, return SFFS_WRITE_OK
WriteReturn ==
    /\ pc = "stage" /\ w.i > w.b_end
    /\ f' = [f EXCEPT !.pos = f.pos + w.len]
    /\ ret' = [op |-> "write", val |-> SFFS_WRITE_OK, len |-> w.len, buf |-> <<>>]
    /\ expect' = ExpectAfter(w.len)
    /\ pc' = "idle"
    /\ w' = NoCall
    /\ log' = <<>>
    /\ UNCHANGED <<flash, ndebug, garbage, origin, mounted, pre, fault, nwrites>>

\* an allocation that takes the last erased page of the medium
AllocTargetLast(fl) ==
    LET erased == {p \in Pages :
                      sffs_get_page_metadata(fl, p).state = SFFS_PAGE_STATE_ERASED}
    IN  IF sffs_find_erased_page(fl) = NoPage THEN NoPage
        ELSE CHOOSE p \in erased : \A q \in erased : PageNo(q) <= PageNo(p)
\* an allocation that falls back to the first data page when no erased
\* page is found
AllocTargetUnchecked(fl) ==
    IF sffs_find_erased_page(fl) = NoPage THEN PageAt(0)
    ELSE sffs_find_erased_page(fl)
\* the page sffs_write takes from sffs_find_erased_page; NoPage makes the
\* call return SFFS_WRITE_FAILED
AllocTarget(fl) == sffs_find_erased_page(fl)

\* the part of one loop iteration before the first flash write: look the
\* block up, stage the page image, compute the offsets, check the four
\* assertions, look for an erased page
StageBlock(fl, file_id, pos, len, i) ==
    LET page == sffs_find_page(fl, file_id, i)
        loaded_old == page # NoPage
        page_data == IF loaded_old THEN PageData(fl, page)
                     ELSE [k \in 1..page_size |-> 0]
        data_start == MAX(pos, i * page_size)
        data_end == U32Min(U32Sub1(pos + len), (i + 1) * page_size - 1)
        source_offset == data_start - pos
        dest_offset == data_start % page_size
        dest_len == data_end - data_start + 1
        asserts_ok == /\ source_offset < len
                      /\ dest_offset < page_size
                      /\ dest_len <= page_size
                      /\ dest_len <= len
    IN  [page |-> page, loaded_old |-> loaded_old,
         \* TODO: write actual data -- buf is not copied into page_data
         page_data |-> page_data,
         source_offset |-> source_offset, dest_offset |-> dest_offset,
         dest_len |-> dest_len,
         fault |-> IF asserts_ok THEN "none" ELSE "write_assert",
         new_page |-> AllocTarget(fl)]

Stage ==
    /\ pc = "stage" /\ w.i <= w.b_end
    /\ LET s == StageBlock(flash, f.file_id, f.pos, w.len, w.i)
       IN  /\ fault' = IF fault = "none" THEN s.fault ELSE fault
           /\ IF s.fault # "none" /\ ~ndebug
              THEN /\ pc' = "aborted"
                   /\ UNCHANGED <<w, ret>>
              ELSE IF s.new_page = NoPage
              THEN /\ pc' = "idle"
                   /\ w' = NoCall
                   /\ ret' = [op |-> "write", val |-> SFFS_WRITE_FAILED, len |-> w.len, buf |-> <<>>]
              ELSE /\ pc' = IF s.loaded_old THEN "moving" ELSE "reserve"
                   /\ w' = [w EXCEPT !.page = s.page,
                                     !.loaded_old = s.loaded_old,
                                     !.page_data = s.page_data,
                                     !.new_page = s.new_page,
                                     !.source_offset = s.source_offset,
                                     !.dest_offset = s.dest_offset,
                                     !.dest_len = s.dest_len]
                   /\ UNCHANGED ret
    /\ log' = <<>>
    /\ UNCHANGED <<flash, ndebug, garbage, origin, mounted, f, pre, nwrites,
                   expect>>

\* one flash_page_write call of the iteration and the step that follows it
WriteStep(at, r, entry, next) ==
    /\ pc = at
    /\ Outcome(r, next)
    /\ log' = Append(log, entry)
    /\ UNCHANGED <<ndebug, garbage, origin, mounted, f, ret, pre, nwrites,
                   expect>>

\* the item the commit writes: block, size, state and file_id assigned,
\* reserved left uninitialised
CommitItem(file_id, i, g) ==
    [file_id |-> file_id % U16, block |-> i % U16,
     state |-> SFFS_PAGE_STATE_USED, size |-> page_size % U16, reserved |-> g]

\* if (loaded_old) sffs_set_page_state(page, MOVING): item, then header
MarkMoving ==
    /\ WriteStep("moving", StateWrite(flash, w.page, SFFS_PAGE_STATE_MOVING, ndebug),
                 LogItem(w.page, SFFS_PAGE_STATE_MOVING), "moving_hdr")
    /\ UNCHANGED w
MarkMovingHeader ==
    /\ WriteStep("moving_hdr", sffs_update_sector_metadata(flash, w.page.sector, ndebug),
                 LogHeader(w.page.sector), "reserve")
    /\ UNCHANGED w

\* sffs_set_page_state(new_page, RESERVED): item, then header
MarkReserved ==
    /\ WriteStep("reserve", StateWrite(flash, w.new_page, SFFS_PAGE_STATE_RESERVED, ndebug),
                 LogItem(w.new_page, SFFS_PAGE_STATE_RESERVED), "reserve_hdr")
    /\ UNCHANGED w
MarkReservedHeader ==
    /\ WriteStep("reserve_hdr", sffs_update_sector_metadata(flash, w.new_page.sector, ndebug),
                 LogHeader(w.new_page.sector), "data")
    /\ UNCHANGED w

\* a data write that stores zeroes instead of the staged page image
WriteDataZeroed ==
    /\ WriteStep("data", flash_page_write(flash, sffs_page_addr(w.new_page),
                                          [k \in 1..page_size |-> 0], ndebug),
                 LogData(w.new_page), IF w.loaded_old THEN "old" ELSE "commit")
    /\ UNCHANGED w
\* sffs_cached_write of page_data to the new page
WriteData ==
    /\ WriteStep("data", flash_page_write(flash, sffs_page_addr(w.new_page),
                                          w.page_data, ndebug),
                 LogData(w.new_page), IF w.loaded_old THEN "old" ELSE "commit")
    /\ UNCHANGED w

\* if (loaded_old) sffs_set_page_state(page, OLD): item, then header
MarkOld ==
    /\ WriteStep("old", StateWrite(flash, w.page, SFFS_PAGE_STATE_OLD, ndebug),
                 LogItem(w.page, SFFS_PAGE_STATE_OLD), "old_hdr")
    /\ UNCHANGED w
MarkOldHeader ==
    /\ WriteStep("old_hdr", sffs_update_sector_metadata(flash, w.page.sector, ndebug),
                 LogHeader(w.page.sector), "commit")
    /\ UNCHANGED w

\* sffs_set_page_metadata(new_page, item): item, then header; then i++
Commit ==
    /\ WriteStep("commit", ItemWrite(flash, w.new_page,
                                     CommitItem(f.file_id, w.i, garbage), ndebug),
                 LogItem(w.new_page, SFFS_PAGE_STATE_USED), "commit_hdr")
    /\ UNCHANGED w
CommitHeader ==
    /\ WriteStep("commit_hdr", sffs_update_sector_metadata(flash, w.new_page.sector, ndebug),
                 LogHeader(w.new_page.sector), "stage")
    /\ w' = [w EXCEPT !.i = w.i + 1]

Next ==
    \/ Format
    \/ Mount
    \/ \E id \in FileIds, src \in Sources : Open(id, src)
    \/ Close
    \/ \E n \in ReadLens : \E v \in {0, 1, n} : Read(n, v)
    \/ FileSize
    \/ \E len \in Lens : WriteCall(len)
    \/ Stage
    \/ MarkMoving
    \/ MarkMovingHeader
    \/ MarkReserved
    \/ MarkReservedHeader
    \/ WriteData
    \/ MarkOld
    \/ MarkOldHeader
    \/ Commit
    \/ CommitHeader
    \/ WriteReturn

Spec == Init /\ [][Next]_vars

\* ------------------------------------------------------------------------
\* The lookups and the sector state derivation on arbitrary media
\* ------------------------------------------------------------------------
\* sffs_find_page, sffs_find_erased_page and sffs_update_sector_metadata
\* read whatever the medium holds.  These media are formatted chips on which
\* the items of the first pages were written without the sector headers
\* being brought up to date (what a power loss between the item write and
\* the header write of sffs_set_page_metadata leaves), and on which the
\* header of sector 0 may say FULL or DIRTY.
MediaItems ==
    {[state |-> SFFS_PAGE_STATE_ERASED, file_id |-> 65535, block |-> 65535]}
    \cup {[state |-> st, file_id |-> 1, block |-> 0] :
            st \in {SFFS_PAGE_STATE_RESERVED, SFFS_PAGE_STATE_USED,
                    SFFS_PAGE_STATE_MOVING, SFFS_PAGE_STATE_OLD}}
    \cup {[state |-> SFFS_PAGE_STATE_USED, file_id |-> 2, block |-> 0]}
MediaSlots == 1 .. MIN(MediaPages, NumPages)
MediaHeaders == {SFFS_SECTOR_STATE_ERASED, SFFS_SECTOR_STATE_FULL,
                 SFFS_SECTOR_STATE_DIRTY}

\* the erased chip after sffs_format, its unassigned bytes 0xff
FormattedChip == sffs_format(ErasedChip, 255, TRUE).data

RECURSIVE MediumItems(_, _, _, _)
MediumItems(fl, items, n, g) ==
    IF n > Len(items) THEN fl
    ELSE IF items[n].state = SFFS_PAGE_STATE_ERASED
    THEN MediumItems(fl, items, n + 1, g)
    ELSE LET r == ItemWrite(fl, PageAt(n - 1),
                            [file_id |-> items[n].file_id,
                             block |-> items[n].block,
                             state |-> items[n].state,
                             size |-> page_size, reserved |-> g], TRUE)
         IN  IF r.fault # "none" THEN fl
             ELSE MediumItems(r.data, items, n + 1, g)

Medium(items, hdr0, g) ==
    LET fl == MediumItems(FormattedChip, items, 1, g)
        header == flash_page_read(fl, HeaderAddr(0), HeaderSize)
    IN  flash_page_write(fl, HeaderAddr(0), [header EXCEPT ![5] = hdr0], TRUE).data

MediaInit ==
    /\ ndebug = FALSE
    /\ garbage = 255
    /\ \E items \in [MediaSlots -> MediaItems], hdr0 \in MediaHeaders :
           flash = Medium(items, hdr0, garbage)
    /\ origin = "media"
    /\ mounted = TRUE
    /\ f = NoFile
    /\ pc = "idle"
    /\ w = NoCall
    /\ ret = NoRet
    /\ pre = NoPre
    /\ log = <<>>
    /\ fault = "none"
    /\ nwrites = 0
    /\ expect = NoExpect

\* the number of a page in scan order, -1 for NOT_FOUND
Found(page) == IF page = NoPage THEN -1 ELSE PageNo(page)

\* one call of sffs_find_page: the medium is read, nothing is written
FindPage(file_id, block) ==
    /\ pc = "idle" /\ origin = "media"
    /\ ret' = [op |-> "find_page", val |-> Found(sffs_find_page(flash, file_id, block)),
               len |-> 0, buf |-> <<file_id, block>>]
    /\ pre' = [NoPre EXCEPT !.flash = flash]
    /\ pc' = "returned"
    /\ UNCHANGED <<flash, ndebug, garbage, origin, mounted, f, w, log, fault,
                   nwrites, expect>>

\* one call of sffs_find_erased_page
FindErasedPage ==
    /\ pc = "idle" /\ origin = "media"
    /\ ret' = [op |-> "find_erased_page", val |-> Found(sffs_find_erased_page(flash)),
               len |-> 0, buf |-> <<>>]
    /\ pre' = [NoPre EXCEPT !.flash = flash]
    /\ pc' = "returned"
    /\ UNCHANGED <<flash, ndebug, garbage, origin, mounted, f, w, log, fault,
                   nwrites, expect>>

\* one call of sffs_update_sector_metadata
UpdateSector(sector) ==
    /\ pc = "idle" /\ origin = "media"
    /\ Outcome(sffs_update_sector_metadata(flash, sector, ndebug), "returned")
    /\ ret' = [op |-> "update_sector", val |-> 0, len |-> sector, buf |-> <<>>]
    /\ pre' = [NoPre EXCEPT !.flash = flash]
    /\ UNCHANGED <<ndebug, garbage, origin, mounted, f, w, log, nwrites, expect>>

MediaNext ==
    \/ \E file_id \in {1, 2}, block \in {0, 1} : FindPage(file_id, block)
    \/ FindErasedPage
    \/ \E sector \in Sectors : UpdateSector(sector)

MediaSpec == MediaInit /\ [][MediaNext]_vars

\* ------------------------------------------------------------------------
\* Notions the properties are stated with
\* ------------------------------------------------------------------------
PageState(fl, p) == sffs_get_page_metadata(fl, p).state
Live(fl, p) == PageState(fl, p) \in {SFFS_PAGE_STATE_USED, SFFS_PAGE_STATE_MOVING}
\* the (file_id, block) pairs that some USED or MOVING page carries
ResolvedKeys(fl) ==
    {<<sffs_get_page_metadata(fl, p).file_id, sffs_get_page_metadata(fl, p).block>> :
        p \in {q \in Pages : Live(fl, q)}}
\* the data a (file_id, block) pair resolves to
Resolve(fl, key) == PageData(fl, sffs_find_page(fl, key[1], key[2]))

\* section 4.4 step 2: the intersection of the write with block i
MergeStart(pos, i) == MAX(pos, i * page_size)
MergeEnd(pos, len, i) == MIN(pos + len - 1, (i + 1) * page_size - 1)
\* the page image of block i after the merge of buf into base
Merged(base, buf, pos, len, i) ==
    [k \in 1..page_size |->
        IF /\ i * page_size + k - 1 >= MergeStart(pos, i)
           /\ i * page_size + k - 1 <= MergeEnd(pos, len, i)
        THEN buf[i * page_size + k - 1 - pos + 1]
        ELSE base[k]]
\* the blocks a write of len >= 1 bytes at pos covers
BlocksOf(pos, len) == (pos \div page_size) .. ((pos + len - 1) \div page_size)

\* the item and data writes of the current block iteration, headers left out
ItemLog == SelectSeq(log, LAMBDA e : e.op # "header")
IsPrefix(a, b) == Len(a) <= Len(b) /\ a = SubSeq(b, 1, Len(a))

\* steps at which an item has been written and its sector header not yet
HeaderPending == {"moving_hdr", "reserve_hdr", "old_hdr", "commit_hdr"}

\* ------------------------------------------------------------------------
\* C1  Ordering within one sffs_write call
\* ------------------------------------------------------------------------
ClaimedOrder ==
    << LogItem(w.page, SFFS_PAGE_STATE_MOVING),
       LogItem(w.new_page, SFFS_PAGE_STATE_RESERVED),
       LogData(w.new_page),
       LogItem(w.new_page, SFFS_PAGE_STATE_USED),
       LogItem(w.page, SFFS_PAGE_STATE_OLD) >>

\* C1: for a block that already had a page, the item and data writes reach
\* the flash in the order old->MOVING, new->RESERVED, data, commit of the
\* new item, old->OLD: at every step of the iteration the writes issued so
\* far are a prefix of that order.
C1_WriteOrder ==
    (pc \in WriteSteps /\ w.loaded_old) => IsPrefix(ItemLog, ClaimedOrder)

\* ------------------------------------------------------------------------
\* C2  Crash safety
\* ------------------------------------------------------------------------
\* what a pair resolved to when sffs_write was called
PreContent(key) == Resolve(pre.flash, key)
\* what it resolves to once the write is complete, per section 4.4
PostContent(key) ==
    IF key[1] = pre.file_id /\ key[2] \in BlocksOf(pre.pos, pre.len)
    THEN Merged(PreContent(key), SrcBuf(f.src, pre.pos, pre.len),
                pre.pos, pre.len, key[2])
    ELSE PreContent(key)

\* C2: after any flash adaptor call of sffs_write the medium, as it would be
\* found after a power loss, still resolves every (file_id, block) that
\* resolved before the call, to the complete pre-write or the complete
\* post-write content of the block.
C2_CrashSafe ==
    (pc \in WriteSteps /\ pre.len >= 1) =>
        \A key \in ResolvedKeys(pre.flash) :
            /\ sffs_find_page(flash, key[1], key[2]) # NoPage
            /\ Resolve(flash, key) \in {PreContent(key), PostContent(key)}

\* ------------------------------------------------------------------------
\* C3  Invariant 1
\* ------------------------------------------------------------------------
\* the USED or MOVING pages that carry a (file_id, block) pair
Holders(fl, key) ==
    {p \in Pages : /\ Live(fl, p)
                   /\ sffs_get_page_metadata(fl, p).file_id = key[1]
                   /\ sffs_get_page_metadata(fl, p).block = key[2]}

\* C3: in every quiescent state (no sffs_write in progress) every
\* (file_id, block) pair is carried by at most one USED or MOVING page.
C3_AtMostOneLivePage ==
    pc = "idle" =>
        \A key \in ResolvedKeys(flash) : Cardinality(Holders(flash, key)) <= 1

\* a write of at least one block has completed on a medium that has live
\* pages and retired pages
C3_Witness ==
    /\ pc = "idle" /\ ret.op = "write" /\ ret.val = SFFS_WRITE_OK /\ ret.len >= 1
    /\ ResolvedKeys(flash) # {}
    /\ \E p \in Pages : PageState(flash, p) = SFFS_PAGE_STATE_OLD

\* ------------------------------------------------------------------------
\* C4  Every write is a 1 -> 0 refinement
\* ------------------------------------------------------------------------
\* C4: on a medium that sffs_format wrote on the erased chip, no byte passed
\* to flash_page_write sets a bit: the emulator's bad-write condition
\* (flash->data[addr + i] != data[i] after the and) never arises.
C4_NoBadWrite == origin = "format" => fault # "bad_write"

\* ------------------------------------------------------------------------
\* C5  Merge step
\* ------------------------------------------------------------------------
\* C5: once the page image has been written to the new page, the page
\* holds buf[source_offset .. source_offset + dest_len) at
\* [dest_offset .. dest_offset + dest_len).
C5_MergedDataOnMedium ==
    (pc \in {"old", "old_hdr", "commit", "commit_hdr"} /\ w.len >= 1) =>
        \A k \in 0 .. (w.dest_len - 1) :
            PageData(flash, w.new_page)[w.dest_offset + k + 1]
                = w.buf[w.source_offset + k + 1]

\* ------------------------------------------------------------------------
\* C6  Scatter-write round trip
\* ------------------------------------------------------------------------
\* C6: after a single writer has written B in chunks to a file on a fresh
\* medium and the file has been reopened, sffs_read of n bytes returns
\* min(n, |B|) and delivers the first bytes of B.
C6_RoundTrip ==
    (ret.op = "read" /\ expect.kind = "file" /\ f.file_id = expect.file_id
     /\ f.pos = 0) =>
        /\ ret.val = MIN(ret.len, expect.len)
        /\ \A k \in 1 .. ret.val : ret.buf[k] = SrcByte(expect.src, k - 1)

\* ------------------------------------------------------------------------
\* C7  A failed write changes nothing
\* ------------------------------------------------------------------------
\* C7: when sffs_write has returned SFFS_WRITE_FAILED the medium and f->pos
\* are what they were when it was called.
C7_FailedWriteChangesNothing ==
    (pc = "idle" /\ ret.op = "write" /\ ret.val = SFFS_WRITE_FAILED) =>
        (flash = pre.flash /\ f.pos = pre.pos)

\* ------------------------------------------------------------------------
\* C8  Medium full
\* ------------------------------------------------------------------------
\* sffs_write was called with len >= 1 on a valid session while
\* sffs_find_erased_page found nothing
CalledWhenFull ==
    /\ ret.op = "write" /\ pre.len >= 1 /\ pre.file_id # 0
    /\ sffs_find_erased_page(pre.flash) = NoPage

\* C8: a write of len >= 1 called when sffs_find_erased_page returns
\* NOT_FOUND writes nothing to the flash before it returns, returns
\* SFFS_WRITE_FAILED, and every (file_id, block) that resolved before the
\* call resolves to the same page with the same data afterwards.
C8_MediumFull ==
    CalledWhenFull =>
        /\ pc \in {"stage", "idle"}
        /\ pc = "idle" => ret.val = SFFS_WRITE_FAILED
        /\ \A key \in ResolvedKeys(pre.flash) :
            /\ sffs_find_page(flash, key[1], key[2])
                 = sffs_find_page(pre.flash, key[1], key[2])
            /\ Resolve(flash, key) = Resolve(pre.flash, key)

\* the failed call has returned on a full medium that carries files
C8_Witness ==
    /\ CalledWhenFull /\ pc = "idle" /\ ret.val = SFFS_WRITE_FAILED
    /\ ResolvedKeys(pre.flash) # {}

\* ------------------------------------------------------------------------
\* C9  Invariant 3
\* ------------------------------------------------------------------------
AllowedSteps ==
    { <<SFFS_PAGE_STATE_ERASED, SFFS_PAGE_STATE_RESERVED>>,
      <<SFFS_PAGE_STATE_RESERVED, SFFS_PAGE_STATE_USED>>,
      <<SFFS_PAGE_STATE_USED, SFFS_PAGE_STATE_MOVING>>,
      <<SFFS_PAGE_STATE_MOVING, SFFS_PAGE_STATE_OLD>> }

\* C9: once the medium is formatted, every step leaves the state of every
\* data page as it is or advances it by exactly one state of
\* ERASED -> RESERVED -> USED -> MOVING -> OLD.
C9_PageStatesAdvance ==
    [][origin # "blank" =>
          \A p \in Pages :
              \/ PageState(flash', p) = PageState(flash, p)
              \/ <<PageState(flash, p), PageState(flash', p)>> \in AllowedSteps]_vars

\* a page has been retired and another one reserved
C9_Witness ==
    /\ \E p \in Pages : PageState(flash, p) = SFFS_PAGE_STATE_OLD
    /\ \E p \in Pages : PageState(flash, p) = SFFS_PAGE_STATE_RESERVED

\* ------------------------------------------------------------------------
\* C10  Invariant 2
\* ------------------------------------------------------------------------
\* section 4.2, the derivation table, first matching rule wins; -1 when no
\* rule matches
TableSectorState(fl, sector) ==
    LET n(st) == CountState(fl, sector, st)
        all == data_pages_per_sector
    IN  IF n(SFFS_PAGE_STATE_ERASED) = all THEN SFFS_SECTOR_STATE_ERASED
        ELSE IF n(SFFS_PAGE_STATE_ERASED) > 0
                /\ n(SFFS_PAGE_STATE_RESERVED) + n(SFFS_PAGE_STATE_USED)
                   + n(SFFS_PAGE_STATE_MOVING) + n(SFFS_PAGE_STATE_OLD) > 0
        THEN SFFS_SECTOR_STATE_USED
        ELSE IF n(SFFS_PAGE_STATE_OLD) = all THEN SFFS_SECTOR_STATE_OLD
        ELSE IF n(SFFS_PAGE_STATE_ERASED) = 0
                /\ n(SFFS_PAGE_STATE_RESERVED) + n(SFFS_PAGE_STATE_USED)
                   + n(SFFS_PAGE_STATE_MOVING) + n(SFFS_PAGE_STATE_OLD) = all
                /\ n(SFFS_PAGE_STATE_OLD) > 0
        THEN SFFS_SECTOR_STATE_DIRTY
        ELSE IF n(SFFS_PAGE_STATE_ERASED) = 0 /\ n(SFFS_PAGE_STATE_OLD) = 0
        THEN SFFS_SECTOR_STATE_FULL
        ELSE -1

\* the sectors whose header the current block iteration has rewritten
TouchedSectors == {log[j].sector : j \in {k \in 1..Len(log) : log[k].op = "header"}}

\* C10: after sffs_format, and after every completed sffs_set_page_state or
\* sffs_set_page_metadata, the header state byte of each sector touched
\* equals the state the derivation table gives for the sector's pages.
C10_HeaderMatchesTable ==
    /\ (origin = "format" /\ nwrites = 0 /\ fault = "none") =>
           \A s \in Sectors : HeaderState(flash, s) = TableSectorState(flash, s)
    /\ (pc \in WriteSteps \ HeaderPending) =>
           \A s \in TouchedSectors : HeaderState(flash, s) = TableSectorState(flash, s)

\* ------------------------------------------------------------------------
\* C11  Isolation between files
\* ------------------------------------------------------------------------
\* the four fields of an item that the claim names
ItemFields(fl, p) ==
    LET item == sffs_get_page_metadata(fl, p)
    IN  <<item.file_id, item.block, item.state, item.size>>
\* the pages that are not erased and carry another file_id than id
OtherFilePages(fl, id) ==
    {p \in Pages : /\ PageState(fl, p) # SFFS_PAGE_STATE_ERASED
                   /\ sffs_get_page_metadata(fl, p).file_id # id}

\* C11: during and after an sffs_write on file A, every page that was not
\* erased and carried another file_id when the call was made has the item
\* fields file_id, block, state, size and the data bytes it had then.
C11_OtherFilesUntouched ==
    (ret.op = "write" /\ pre.file_id # 0) =>
        \A p \in OtherFilePages(pre.flash, pre.file_id) :
            /\ ItemFields(flash, p) = ItemFields(pre.flash, p)
            /\ PageData(flash, p) = PageData(pre.flash, p)

\* a write that relocated a block of its file has returned on a medium
\* that carries a live page of another file
C11_Witness ==
    /\ pc = "idle" /\ ret.op = "write" /\ ret.val = SFFS_WRITE_OK
    /\ \E p \in Pages : /\ PageState(pre.flash, p) = SFFS_PAGE_STATE_USED
                        /\ PageState(flash, p) = SFFS_PAGE_STATE_OLD
    /\ \E p \in OtherFilePages(pre.flash, pre.file_id) : Live(pre.flash, p)

\* ------------------------------------------------------------------------
\* C14  Reclamation
\* ------------------------------------------------------------------------
\* no erased page is found and a DIRTY sector holds an OLD page
ReclaimPossible(fl) ==
    /\ sffs_find_erased_page(fl) = NoPage
    /\ \E p \in Pages : /\ HeaderState(fl, p.sector) = SFFS_SECTOR_STATE_DIRTY
                        /\ PageState(fl, p) = SFFS_PAGE_STATE_OLD

\* C14: a write of len >= 1 called when no erased page is found and a DIRTY
\* sector with OLD pages exists is served, or at least leaves a sector that
\* has been erased and is ERASED again.
C14_ReclaimServesWrite ==
    (pc = "idle" /\ ret.op = "write" /\ pre.len >= 1 /\ pre.file_id # 0
     /\ ReclaimPossible(pre.flash)) =>
        \/ ret.val = SFFS_WRITE_OK
        \/ \E s \in Sectors : HeaderState(flash, s) = SFFS_SECTOR_STATE_ERASED

\* ------------------------------------------------------------------------
\* C15  Mount of an unformatted medium
\* ------------------------------------------------------------------------
\* C15: sffs_mount of the erased, unformatted chip (no sector header has
\* the magic) returns SFFS_MOUNT_FAILED.
C15_MountRejectsUnformatted ==
    (ret.op = "mount" /\ origin = "blank") => ret.val = SFFS_MOUNT_FAILED

\* ------------------------------------------------------------------------
\* C16  Size law
\* ------------------------------------------------------------------------
\* C16: after a single writer has written B to a file on a freshly
\* formatted medium, sffs_file_size of the file is |B|.
C16_SizeLaw ==
    (ret.op = "size" /\ expect.kind = "file") => ret.val = expect.len

\* ------------------------------------------------------------------------
\* C12  Layout written by sffs_format
\* ------------------------------------------------------------------------
\* C12: after sffs_format on the erased chip and before any write, every
\* sector header has the magic and state ERASED (0xDE), and every item has
\* file_id, block and size 0xFFFF and the state byte ERASED (0xB7).
C12_FormatLayout ==
    (origin = "format" /\ nwrites = 0) =>
        /\ \A s \in Sectors :
              /\ sffs_metadata_header_check(flash, s)
              /\ HeaderState(flash, s) = SFFS_SECTOR_STATE_ERASED
        /\ \A p \in Pages :
              ItemFields(flash, p) = <<65535, 65535, SFFS_PAGE_STATE_ERASED, 65535>>

\* sffs_format has run with the unassigned bytes of its structures zero
C12_Witness == origin = "format" /\ nwrites = 0 /\ garbage = 0 /\ fault = "none"

\* ------------------------------------------------------------------------
\* The geometry sffs_mount derives from struct flash_info
\* ------------------------------------------------------------------------
\* uint32_t and size_t values above 2^31 do not fit TLC's integers: they are
\* held as sequences of 16-bit digits, most significant first.
Limb == 65536
\* the uint32_t n, 0 <= n < 2^31
U32(n) == <<n \div Limb, n % Limb>>
\* the size_t of the given width that n wraps to, -Limb < n < 2^31
SizeT(n, bits) ==
    LET k == bits \div 16
    IN  IF n >= 0
        THEN [i \in 1..k |-> IF i = k THEN n % Limb
                             ELSE IF i = k - 1 THEN n \div Limb ELSE 0]
        ELSE [i \in 1..k |-> IF i = k THEN Limb + n ELSE Limb - 1]
\* x / d by long division, d < 2^15
RECURSIVE DivLimbs(_, _, _, _)
DivLimbs(x, d, i, rem) ==
    IF i > Len(x) THEN <<>>
    ELSE LET cur == rem * Limb + x[i]
         IN  <<cur \div d>> \o DivLimbs(x, d, i + 1, cur % d)
\* conversion of a size_t to uint32_t
Low32(x) == SubSeq(x, Len(x) - 1, Len(x))
\* a - b in uint32_t
Sub32(a, b) ==
    LET lo == a[2] - b[2]
        borrow == IF lo < 0 THEN 1 ELSE 0
        hi == a[1] - b[1] - borrow
    IN  <<(hi + 2 * Limb) % Limb, (lo + Limb) % Limb>>

\* a count of pages that ignores the item each page needs
data_pages_without_items(info) ==
    Low32(DivLimbs(SizeT(info.sector_size - HeaderSize, info.size_bits),
                   info.page_size, 1, 0))
\* sffs_mount: fs->data_pages_per_sector.  The subtraction and the division
\* are done in size_t, whose width the build decides.
mount_data_pages_per_sector(info) ==
    Low32(DivLimbs(SizeT(info.sector_size - HeaderSize, info.size_bits),
                   ItemSize + info.page_size, 1, 0))
\* sffs_mount: the fields of struct sffs derived from info
mount_geometry(info) ==
    [page_size             |-> info.page_size,
     sector_size           |-> info.sector_size,
     sector_count          |-> U32(info.capacity \div info.sector_size),
     data_pages_per_sector |-> mount_data_pages_per_sector(info),
     first_data_page       |-> Sub32(U32(info.sector_size \div info.page_size),
                                     mount_data_pages_per_sector(info))]

\* the devices: page sizes, sector sizes, capacities, and the width of size_t
GeomPageSizes == {1, 2, 8, 10, 256}
GeomSectorSizes == (1 .. GeomMaxSectorSize) \cup {4096}
SizeTBits == {32, 64}
FlashInfos ==
    {[capacity |-> n * S, page_size |-> P, sector_size |-> S, size_bits |-> b] :
        n \in 1 .. GeomMaxSectors, P \in GeomPageSizes, S \in GeomSectorSizes,
        b \in SizeTBits}

\* before sffs_mount: w holds the struct flash_info of the device
GeomInit ==
    /\ w \in FlashInfos
    /\ flash = <<>>
    /\ ndebug \in BOOLEAN
    /\ garbage = 255
    /\ origin = "device"
    /\ mounted = FALSE
    /\ f = NoFile
    /\ pc = "idle"
    /\ ret = NoRet
    /\ pre = NoPre
    /\ log = <<>>
    /\ fault = "none"
    /\ nwrites = 0
    /\ expect = NoExpect

\* sffs_mount on the device: the geometry is derived and not checked, file 0
\* is opened, nothing is read
MountDevice ==
    /\ origin = "device" /\ ~mounted
    /\ mounted' = TRUE
    /\ ret' = [op |-> "mount", val |-> SFFS_MOUNT_OK, fs |-> mount_geometry(w)]
    /\ UNCHANGED <<flash, ndebug, garbage, origin, f, pc, w, pre, log, fault,
                   nwrites, expect>>

GeomNext == MountDevice

GeomSpec == GeomInit /\ [][GeomNext]_vars

\* ------------------------------------------------------------------------
\* C17  Geometry
\* ------------------------------------------------------------------------
\* x is the uint32_t that holds the number n
IsValue(x, n) == n >= 0 /\ x = U32(n)
\* sffs_page_addr with the geometry of fs, for values below 2^16
page_addr(fs, sector, page) ==
    sector * fs.sector_size + (fs.first_data_page[2] + page) * fs.page_size
\* header and item table of every sector lie in its pages [0, first_data_page)
\* and share no byte with the page at the address of any data page
MetadataFits(fs) ==
    /\ fs.data_pages_per_sector[1] = 0 /\ fs.first_data_page[1] = 0
    /\ fs.sector_count[1] = 0
    /\ LET n == fs.data_pages_per_sector[2]
           table == HeaderSize + ItemSize * n
       IN  /\ table <= fs.first_data_page[2] * fs.page_size
           /\ \A sector \in 0 .. (fs.sector_count[2] - 1), page \in 0 .. (n - 1),
                 other \in 0 .. (fs.sector_count[2] - 1) :
                   \/ page_addr(fs, sector, page) >= other * fs.sector_size + table
                   \/ page_addr(fs, sector, page) + fs.page_size
                          <= other * fs.sector_size
GeometryAsClaimed ==
    LET P == w.page_size
        S == w.sector_size
        n == (S - HeaderSize) \div (ItemSize + P)
    IN  /\ IsValue(ret.fs.sector_count, w.capacity \div S)
        /\ IsValue(ret.fs.data_pages_per_sector, n)
        /\ IsValue(ret.fs.first_data_page, (S \div P) - n)
        /\ (P = 256 /\ S = 4096 /\ w.capacity = 32768) =>
               /\ ret.fs.sector_count = U32(8)
               /\ ret.fs.data_pages_per_sector = U32(15)
        /\ S % P = 0 => MetadataFits(ret.fs)

KeyPages(fl, file_id, block, st) ==
    {p \in Pages : ItemFields(fl, p)[1] = file_id
                   /\ ItemFields(fl, p)[2] = block
                   /\ PageState(fl, p) = st}
Twin(fl, file_id, block) ==
    /\ KeyPages(fl, file_id, block, SFFS_PAGE_STATE_MOVING) # {}
    /\ KeyPages(fl, file_id, block, SFFS_PAGE_STATE_USED) # {}

\* C13: on a medium where a (file_id, block) has both a MOVING and a USED
\* page, sffs_find_page returns a USED page whichever of the two comes first
\* in scan order, and afterwards the MOVING twin is OLD (no MOVING page of
\* that key is left).
C13_TwinResolved ==
    (ret.op = "find_page" /\ Twin(pre.flash, ret.buf[1], ret.buf[2])) =>
        /\ ret.val # -1
        /\ PageState(flash, PageAt(ret.val)) = SFFS_PAGE_STATE_USED
        /\ \A p \in KeyPages(pre.flash, ret.buf[1], ret.buf[2], SFFS_PAGE_STATE_MOVING) :
               PageState(flash, p) = SFFS_PAGE_STATE_OLD

\* ------------------------------------------------------------------------
\* C18  FULL and DIRTY in the sector state derivation
\* ------------------------------------------------------------------------
\* C18: sffs_update_sector_metadata, applied to a sector whose header still
\* holds the state format wrote, leaves FULL when the sector has no ERASED
\* and no OLD page, and leaves DIRTY only when the sector has no ERASED page
\* and at least one OLD page.
C18_FullNotDirty ==
    (ret.op = "update_sector"
     /\ HeaderState(pre.flash, ret.len) = SFFS_SECTOR_STATE_ERASED) =>
        LET n(st) == CountState(flash, ret.len, st)
        IN  /\ (n(SFFS_PAGE_STATE_ERASED) = 0 /\ n(SFFS_PAGE_STATE_OLD) = 0) =>
                   HeaderState(flash, ret.len) = SFFS_SECTOR_STATE_FULL
            /\ HeaderState(flash, ret.len) = SFFS_SECTOR_STATE_DIRTY =>
                   (n(SFFS_PAGE_STATE_ERASED) = 0 /\ n(SFFS_PAGE_STATE_OLD) >= 1)

\* ------------------------------------------------------------------------
\* C19  What sffs_find_page returns
\* ------------------------------------------------------------------------
\* p comes no later than q when sectors are scanned in ascending order and
\* the pages of a sector in ascending order
ScannedBefore(p, q) ==
    \/ p.sector < q.sector
    \/ p.sector = q.sector /\ p.page <= q.page

\* C19: sffs_find_page(file_id, block) returns the first page in scan order
\* whose item has that file_id and block and is USED or MOVING; it never
\* returns an ERASED, RESERVED or OLD page, and it returns NOT_FOUND exactly
\* when no such USED or MOVING page exists.
C19_FindPage ==
    ret.op = "find_page" =>
        LET match == KeyPages(flash, ret.buf[1], ret.buf[2], SFFS_PAGE_STATE_USED)
                     \cup KeyPages(flash, ret.buf[1], ret.buf[2], SFFS_PAGE_STATE_MOVING)
        IN  /\ (ret.val = -1) <=> (match = {})
            /\ ret.val # -1 =>
                   /\ PageAt(ret.val) \in match
                   /\ PageState(flash, PageAt(ret.val)) \notin
                          {SFFS_PAGE_STATE_ERASED, SFFS_PAGE_STATE_RESERVED,
                           SFFS_PAGE_STATE_OLD}
                   /\ \A q \in match : ScannedBefore(PageAt(ret.val), q)
\* a lookup that found its page behind an OLD and a RESERVED page of the key
C19_Witness ==
    /\ ret.op = "find_page" /\ ret.val >= 2
    /\ KeyPages(flash, ret.buf[1], ret.buf[2], SFFS_PAGE_STATE_OLD) # {}
    /\ KeyPages(flash, ret.buf[1], ret.buf[2], SFFS_PAGE_STATE_RESERVED) # {}
    /\ \A q \in KeyPages(flash, ret.buf[1], ret.buf[2], SFFS_PAGE_STATE_OLD) :
           ScannedBefore(q, PageAt(ret.val))

\* ------------------------------------------------------------------------
\* C20  What sffs_find_erased_page returns
\* ------------------------------------------------------------------------
\* C20: sffs_find_erased_page returns the ERASED page with the lowest
\* (sector, index) among the sectors whose header state is neither FULL nor
\* DIRTY, NOT_FOUND when no such sector holds an ERASED page, and never a
\* page that is not ERASED.
C20_FindErasedPage ==
    ret.op = "find_erased_page" =>
        LET open == {s \in Sectors :
                        HeaderState(flash, s) \notin {SFFS_SECTOR_STATE_FULL,
                                                      SFFS_SECTOR_STATE_DIRTY}}
            free == {p \in Pages : p.sector \in open
                                   /\ PageState(flash, p) = SFFS_PAGE_STATE_ERASED}
        IN  /\ (ret.val = -1) <=> (free = {})
            /\ ret.val # -1 =>
                   /\ PageAt(ret.val) \in free
                   /\ \A q \in free : ScannedBefore(PageAt(ret.val), q)
\* a search that passed an ERASED page of a FULL or DIRTY sector and took an
\* ERASED page of a later sector
C20_Witness ==
    /\ ret.op = "find_erased_page" /\ ret.val # -1
    /\ \E p \in Pages :
          /\ p.sector < PageAt(ret.val).sector
          /\ PageState(flash, p) = SFFS_PAGE_STATE_ERASED
          /\ HeaderState(flash, p.sector) \in {SFFS_SECTOR_STATE_FULL,
                                               SFFS_SECTOR_STATE_DIRTY}

\* ------------------------------------------------------------------------
\* C21  What a successful write leaves for each block
\* ------------------------------------------------------------------------
\* the blocks [floor(pos/P), floor((pos+len-1)/P)] of a write
BlockRange(pos, len) == (pos \div page_size) .. ((pos + len - 1) \div page_size)

\* C21: after sffs_write returned SFFS_WRITE_OK, for every block i of its
\* range sffs_find_page(file_id, i) returns a page allocated during the call
\* (ERASED when the call was made), whose item is {file_id, block = i,
\* size = P, state = USED}, and the page that held block i before the call,
\* if any, is OLD.
C21_WrittenBlocksCommitted ==
    (pc = "idle" /\ ret.op = "write" /\ ret.val = SFFS_WRITE_OK) =>
        \A i \in BlockRange(pre.pos, pre.len) :
            LET page == sffs_find_page(flash, pre.file_id, i)
                old == sffs_find_page(pre.flash, pre.file_id, i)
            IN  /\ page # NoPage
                /\ PageState(pre.flash, page) = SFFS_PAGE_STATE_ERASED
                /\ ItemFields(flash, page)
                       = <<pre.file_id, i, SFFS_PAGE_STATE_USED, page_size>>
                /\ old # NoPage => PageState(flash, old) = SFFS_PAGE_STATE_OLD

\* ------------------------------------------------------------------------
\* C22  Relocation keeps the bytes outside the written range
\* ------------------------------------------------------------------------
\* the steps of an iteration at which the data of the new page is written
DataWritten == {"old", "old_hdr", "commit", "commit_hdr"}
\* the part [dst_off, dst_off + n) of block i that a write of len bytes at
\* pos covers
DstOff(pos, i) == MAX(pos, i * page_size) % page_size
DstLen(pos, len, i) == MIN(pos + len, (i + 1) * page_size) - MAX(pos, i * page_size)

\* C22: for the block i being written, every byte of the new page at an
\* offset outside [dst_off, dst_off + n) equals the byte at that offset of
\* the page that held block i when sffs_write was called, or 0x00 if no page
\* held it.
C22_RelocationKeepsBytes ==
    pc \in DataWritten =>
        LET old == sffs_find_page(pre.flash, pre.file_id, w.i)
            lo == DstOff(pre.pos, w.i)
            n == DstLen(pre.pos, pre.len, w.i)
        IN  \A k \in 0 .. (page_size - 1) :
                (k < lo \/ k >= lo + n) =>
                    PageData(flash, w.new_page)[k + 1]
                        = IF old # NoPage THEN PageData(pre.flash, old)[k + 1] ELSE 0
\* a one-byte write relocated a page whose last byte is not 0x00
C22_Witness ==
    /\ pc = "commit" /\ pre.len = 1 /\ w.loaded_old
    /\ sffs_find_page(pre.flash, pre.file_id, w.i) = w.page
    /\ PageData(pre.flash, w.page)[page_size] # 0
    /\ PageData(flash, w.new_page)[page_size] = PageData(pre.flash, w.page)[page_size]

\* ------------------------------------------------------------------------
\* C23  The state byte of a sector header only loses bits
\* ------------------------------------------------------------------------
\* a has no bit that b lacks
Submask(a, b) == BitAnd(a, b) = a
\* the sector whose header the pending sffs_update_sector_metadata writes
PendingSector ==
    IF pc \in {"moving_hdr", "old_hdr"} THEN w.page.sector ELSE w.new_page.sector

\* C23: once the medium is formatted, every value sffs_update_sector_metadata
\* is about to write to a sector's state byte is a submask of the value
\* stored there, and during and after a sffs_write call the state byte of
\* every sector is a submask of what it was when the call was made, so no
\* header write sets a bit and no sector state moves back.
C23_HeaderOnlyLosesBits ==
    /\ (pc \in HeaderPending /\ sffs_metadata_header_check(flash, PendingSector)) =>
           /\ DerivedSectorState(flash, PendingSector) # -1
           /\ Submask(DerivedSectorState(flash, PendingSector),
                      HeaderState(flash, PendingSector))
    /\ (ret.op = "write" /\ origin # "blank") =>
           \A s \in Sectors : Submask(HeaderState(flash, s), HeaderState(pre.flash, s))
\* a header write is pending that takes a sector whose header says USED to
\* DIRTY
C23_Witness ==
    /\ pc \in HeaderPending
    /\ HeaderState(flash, PendingSector) = SFFS_SECTOR_STATE_USED
    /\ DerivedSectorState(flash, PendingSector) = SFFS_SECTOR_STATE_DIRTY

C25_AllocatorComplete ==
    origin # "blank" =>
        /\ \A s \in Sectors :
               HeaderState(flash, s) \in {SFFS_SECTOR_STATE_FULL, SFFS_SECTOR_STATE_DIRTY}
                   => CountState(flash, s, SFFS_PAGE_STATE_ERASED) = 0
        /\ sffs_find_erased_page(flash) = NoPage =>
               \A p \in Pages : PageState(flash, p) # SFFS_PAGE_STATE_ERASED
\* writes have used up a formatted medium: every sector is DIRTY and the
\* search for an erased page fails
C25_Witness ==
    /\ origin = "format" /\ nwrites >= 2
    /\ \A s \in Sectors : HeaderState(flash, s) = SFFS_SECTOR_STATE_DIRTY
    /\ sffs_find_erased_page(flash) = NoPage

\* ------------------------------------------------------------------------
\* C26  No in-flight state survives a call
\* ------------------------------------------------------------------------
\* C26: whenever sffs_write has returned, with SFFS_WRITE_OK or with
\* SFFS_WRITE_FAILED because no erased page was found, no data page of the
\* medium is RESERVED or MOVING.
C26_NoInFlightPage ==
    (pc = "idle" /\ ret.op = "write" /\ pre.file_id # 0) =>
        \A p \in Pages :
            PageState(flash, p) \notin {SFFS_PAGE_STATE_RESERVED, SFFS_PAGE_STATE_MOVING}

\* ------------------------------------------------------------------------
\* C27  Erased pages are consumed in ascending order and never come back
\* ------------------------------------------------------------------------
ErasedPages(fl) == {p \in Pages : PageState(fl, p) = SFFS_PAGE_STATE_ERASED}

\* C27: once the medium is formatted, the pages that are not ERASED form a
\* prefix of the pages in (sector, index) order, a sffs_write that returned
\* SFFS_WRITE_OK has lowered the number of ERASED pages by exactly the
\* number of blocks of its range, and no step raises that number.
C27_ErasedConsumedInOrder ==
    /\ [](origin # "blank" =>
            /\ LET erased == ErasedPages(flash)
               IN  \A q \in Pages \ erased : \A p \in erased : ~ScannedBefore(p, q)
            /\ (pc = "idle" /\ ret.op = "write" /\ ret.val = SFFS_WRITE_OK) =>
                   Cardinality(ErasedPages(pre.flash)) - Cardinality(ErasedPages(flash))
                       = Cardinality(BlockRange(pre.pos, pre.len)))
    /\ [][(origin # "blank" /\ flash' # flash) =>
             Cardinality(ErasedPages(flash')) <= Cardinality(ErasedPages(flash))]_vars
\* a write of two blocks returned SFFS_WRITE_OK on a formatted medium and
\* took two erased pages
C27_Witness ==
    /\ origin = "format" /\ pc = "idle" /\ ret.op = "write" /\ ret.val = SFFS_WRITE_OK
    /\ Cardinality(BlockRange(pre.pos, pre.len)) = 2
    /\ Cardinality(ErasedPages(pre.flash)) - Cardinality(ErasedPages(flash)) = 2

\* ------------------------------------------------------------------------
\* C28  The offsets of the block loop
\* ------------------------------------------------------------------------
\* steps of an iteration after its offsets were computed
OffsetsComputed == WriteSteps \ {"stage"}
RECURSIVE DestLenSum(_, _)
\* dest_len as sffs_write computes it, summed over the iterations i .. b_end
\* of the call in progress
DestLenSum(i, b_end) ==
    IF i > b_end THEN 0
    ELSE StageBlock(flash, pre.file_id, pre.pos, pre.len, i).dest_len
         + DestLenSum(i + 1, b_end)

C29_ZeroLengthWrite ==
    (ret.op = "write" /\ pre.len = 0 /\ pre.file_id # 0) =>
        /\ pc # "aborted"
        /\ pc \in WriteSteps => (pc = "stage" /\ w.i > w.b_end)
        /\ flash = pre.flash
        /\ f.pos = pre.pos
        /\ pc = "idle" => ret.val = SFFS_WRITE_OK

====
